---- MODULE Spec2Model ----
(***************************************************************************)
(* Model of the device-info-collector server (src/main.go).                *)
(*                                                                         *)
(* The admission controller is RateLimiter.Allow: a map from client key to *)
(* a slice of admission times, guarded by one mutex.  Time is counted in   *)
(* whole seconds; time.Minute is Window.  The clock is the monotonic       *)
(* time.Now() and only moves forward.                                      *)
(*                                                                         *)
(* Spec      one key, calls of Allow taken as one step each, the clock     *)
(*           moving in third-of-window and whole-window steps.             *)
(* SpecKeys  two keys, the clock moving in whole-window steps.             *)
(* SpecConc  request goroutines running Allow statement by statement, the  *)
(*           clock moving in half-window and whole-window steps.           *)
(* SpecFair  the same goroutines under fair scheduling, the clock moving   *)
(*           in whole-window steps.                                        *)
(* SpecLive  Spec with the clock advancing and the key calling again.      *)
(* SpecIP    getClientIP on requests with bounded headers and addresses.   *)
(* SpecHttp  collectHandler on POST requests with a list of bodies.        *)
(* SpecMethods  collectHandler on requests of the methods GET, OPTIONS and  *)
(*           POST of one client.                                           *)
(* SpecPeer  collectHandler on the requests of one peer with two           *)
(*           forwarded-for headers.                                        *)
(* SpecHash  one call of hashString of the page's script per argument.     *)
(* SpecPage  calls of hashString repeated, interleaved with calls of       *)
(*           Allow.                                                        *)
(***************************************************************************)
EXTENDS Integers, Sequences, FiniteSets, TLC

\* ------------------------------------------------------------------------
\* Program constants
\* ------------------------------------------------------------------------
Limit == 30

Window == 60

\* ------------------------------------------------------------------------
\* Bounds of the model
\* ------------------------------------------------------------------------
\* The clock stops advancing once it would pass MaxClock.
MaxClock == 120

\* The per-key call counter of the first span saturates here.
CallCap == 32

\* Client keys, request goroutines and the clock steps that are explored.
\* A string is the sequence of its characters.
KeyA == <<"A">>

KeyB == <<"B">>

Keys == {KeyA, KeyB}

SlidingKeys == {KeyA}

Procs == {"p1", "p2"}

Third == Window \div 3

TickSteps == {Third, Window}

Half == Window \div 2

ConcSteps == {Half, Window}

NoProc == "none"

VARIABLES
    clock,          \* time.Now(), in seconds
    requests,       \* rl.requests: map from key to sequence of times
    mutex,          \* rl.mutex: the goroutine holding it, or NoProc
    pc,             \* per goroutine: position inside Allow
    ip,             \* per goroutine: the argument of Allow
    now,            \* per goroutine: local now
    validRequests,  \* per goroutine: local validRequests
    result,         \* per goroutine: the value Allow is about to return
    ret,            \* history: the step just taken and what it returned
    admitted,       \* history: per key, the times of calls that returned true
    first,          \* history: per key, the time of its first call while
                    \* less than Window has passed since (NoCall, SpanOver)
    ncalls,         \* history: per key, calls made since first, saturating
    resp,           \* collectHandler: the request just served and its answer
    rq,             \* getClientIP: the request r
    cip,            \* getClientIP: the value returned
    str,            \* hashString: the argument str
    idx,            \* hashString: the loop index i (in characters done)
    hash,           \* hashString: the accumulator hash
    digest,         \* hashString: the value returned
    returned        \* history: the arguments hashString returned on, each
                    \* with its digest and whether it was evaluated before

vars == <<clock, requests, mutex, pc, ip, now, validRequests, result,
          ret, admitted, first, ncalls, resp, rq, cip, str, idx, hash, digest,
          returned>>

\* The variables of the handler, of getClientIP and of the page's script.
page == <<rq, cip, str, idx, hash, digest, returned>>

aux == <<resp, page>>

locals == <<mutex, pc, ip, now, validRequests, result>>

\* ------------------------------------------------------------------------
\* RateLimiter.Allow, its expressions
\* ------------------------------------------------------------------------
\* Variant: one sequence shared by all keys.
LookupShared(m, k) ==
    IF DOMAIN m = {} THEN <<>> ELSE m[CHOOSE x \in DOMAIN m : TRUE]

\* rl.requests[ip]: a missing key reads as the nil slice.
Lookup(m, k) == IF k \in DOMAIN m THEN m[k] ELSE <<>>

\* Variant: storing a key evicts the keys whose sequence is not written.
StoreEvicting(m, k, s) == [x \in {k} |-> s]

\* rl.requests[ip] = s
Store(m, k, s) == [x \in (DOMAIN m) \cup {k} |-> IF x = k THEN s ELSE m[x]]

\* Variant: an entry aged exactly one window is kept.
InWindowLe(req, t) == t - req <= Window

\* now.Sub(req) < time.Minute
InWindow(req, t) == t - req < Window

\* Variant: nothing is discarded.
PruneNone(reqs, t) == reqs

\* The loop that copies the entries still inside the window, in order.
Prune(reqs, t) == SelectSeq(reqs, LAMBDA req : InWindow(req, t))

\* Variant: off by one, the limit itself still admits.
AtLimitOff(valid) == Len(valid) > Limit

\* len(validRequests) >= 30
AtLimit(valid) == Len(valid) >= Limit

\* Variant: the call is recorded before the limit is tested.
DeniedRecorded(m, k, valid, t) == Store(m, k, Append(valid, t))

\* return false: nothing is written back.
Denied(m, k, valid, t) == m

\* Variant: the time of the call is not appended.
AdmittedUnstamped(m, k, valid, t) == Store(m, k, valid)

\* Variant: the window restarts at each admission (fixed bucket).
AdmittedReset(m, k, valid, t) == Store(m, k, <<t>>)

\* validRequests = append(validRequests, now); rl.requests[ip] = validRequests
Admitted(m, k, valid, t) == Store(m, k, Append(valid, t))

\* The map after the decision, and the decision.
Decide(m, k, valid, t) ==
    IF AtLimit(valid) THEN Denied(m, k, valid, t) ELSE Admitted(m, k, valid, t)

Returns(valid) == ~AtLimit(valid)

\* ------------------------------------------------------------------------
\* History variables
\* ------------------------------------------------------------------------
NoRet == [op |-> "none", key |-> KeyA, ok |-> FALSE, slid |-> FALSE,
          afterSlid |-> FALSE, renewed |-> FALSE]

TickRet == [NoRet EXCEPT !.op = "Tick"]

\* Values of first[k] before the first call of k, and once Window has passed
\* since that call.
NoCall == 0 - 1

SpanOver == 0 - 2

\* Number of entries of s that lie in the trailing window (t - Window, t].
CountIn(s, t) == Cardinality({i \in 1..Len(s) : t - Window < s[i] /\ s[i] <= t})

\* Number of entries of s equal to x.
Occurs(s, x) == Cardinality({i \in 1..Len(s) : s[i] = x})

\* The stored sequence holds Limit entries of which exactly one has expired.
OneExpired(m, k, t) ==
    /\ Len(Lookup(m, k)) = Limit
    /\ CountIn(Lookup(m, k), t) = Limit - 1

\* The stored sequence holds Limit entries, each exactly Window old.
AllAtEdge(m, k, t) ==
    /\ Len(Lookup(m, k)) = Limit
    /\ \A i \in 1..Limit : t - Lookup(m, k)[i] = Window

\* What a call Allow(k) at time t deciding ok leaves in the history.
\* renewed: the call is the admitted one that found Limit entries exactly
\* Window old, or follows it with no step other than calls of k between.
Account(k, t, ok) ==
    /\ ret' = [op |-> "Allow", key |-> k, ok |-> ok,
               slid |-> ok /\ OneExpired(requests, k, t),
               afterSlid |-> ret.op = "Allow" /\ ret.key = k /\ ret.slid,
               renewed |-> \/ ok /\ AllAtEdge(requests, k, t)
                           \/ ret.op = "Allow" /\ ret.key = k /\ ret.renewed]
    /\ admitted' = IF ok THEN [admitted EXCEPT ![k] = Append(@, t)]
                         ELSE admitted
    /\ first' = IF first[k] = NoCall THEN [first EXCEPT ![k] = t] ELSE first
    /\ ncalls' = IF first[k] # SpanOver
                     THEN [ncalls EXCEPT
                              ![k] = IF @ < CallCap THEN @ + 1 ELSE @]
                     ELSE ncalls

\* No request served yet, and no request under resolution.
NoRequest == [method |-> "", xff |-> <<>>, xri |-> <<>>, remote |-> <<>>]

NoData == [present |-> FALSE, Timestamp |-> <<>>, IPAddress |-> <<>>,
           UserAgent |-> <<>>]

NoBody == [wellformed |-> FALSE, Timestamp |-> <<>>, IPAddress |-> <<>>,
           UserAgent |-> <<>>]

NoResp == [served |-> FALSE, req |-> NoRequest, body |-> NoBody, code |-> 0,
           status |-> "", data |-> NoData]

NoKey == [done |-> FALSE, key |-> <<>>]

\* The numbers of the script are whole numbers beyond 32 bits on the way
\* (a difference of two 32-bit values, 2^31 as an absolute value).  A number
\* is held in two parts, hi * 2^16 + lo with lo in 0 .. 2^16 - 1, so that
\* every number of the script has one representation and no part is large.
Word == 2^16

Num(hi, lo) == [hi |-> hi + (lo \div Word), lo |-> lo % Word]

\* let hash = 0
Zero == Num(0, 0)

\* hashString has not returned.
NoDigest == <<"?">>

\* ------------------------------------------------------------------------
\* Initial state: var rateLimiter = &RateLimiter{requests: make(...)}
\* ------------------------------------------------------------------------
Init ==
    /\ clock = 0
    /\ requests = <<>>
    /\ mutex = NoProc
    /\ pc = [p \in Procs |-> "idle"]
    /\ ip = [p \in Procs |-> KeyA]
    /\ now = [p \in Procs |-> 0]
    /\ validRequests = [p \in Procs |-> <<>>]
    /\ result = [p \in Procs |-> FALSE]
    /\ ret = NoRet
    /\ admitted = [k \in Keys |-> <<>>]
    /\ first = [k \in Keys |-> NoCall]
    /\ ncalls = [k \in Keys |-> 0]
    /\ resp = NoResp
    /\ rq = NoRequest
    /\ cip = NoKey
    /\ str = <<>>
    /\ idx = 0
    /\ hash = Zero
    /\ digest = NoDigest
    /\ returned = {}

\* ------------------------------------------------------------------------
\* Actions
\* ------------------------------------------------------------------------
\* The clock advances by d seconds.  Admissions that left every trailing
\* window ending now or later are dropped from the history.
Tick(d) ==
    /\ clock + d <= MaxClock
    /\ clock' = clock + d
    /\ ret' = TickRet
    /\ admitted' = [k \in Keys |->
                      SelectSeq(admitted[k], LAMBDA a : clock' - Window < a)]
    /\ first' = [k \in Keys |->
                   IF first[k] >= 0 /\ clock' - first[k] >= Window
                       THEN SpanOver ELSE first[k]]
    /\ ncalls' = [k \in Keys |-> IF first'[k] = SpanOver THEN 0 ELSE ncalls[k]]
    /\ resp' = NoResp
    /\ UNCHANGED <<page, requests, locals>>

\* One whole call rl.Allow(k): the mutex is held from the first statement
\* to the return, so the call is one step.
Allow(k) ==
    /\ mutex = NoProc
    /\ LET valid == Prune(Lookup(requests, k), clock) IN
          /\ requests' = Decide(requests, k, valid, clock)
          /\ Account(k, clock, Returns(valid))
    /\ UNCHANGED <<aux, clock, locals>>

Next ==
    \/ \E d \in TickSteps : Tick(d)
    \/ \E k \in SlidingKeys : Allow(k)

Spec == Init /\ [][Next]_vars

NextKeys ==
    \/ Tick(Window)
    \/ \E k \in Keys : Allow(k)

SpecKeys == Init /\ [][NextKeys]_vars

\* The clock keeps advancing while it can, and the key keeps calling.
FairLive ==
    /\ WF_vars(\E d \in TickSteps : Tick(d))
    /\ \A k \in SlidingKeys : WF_vars(Allow(k))

SpecLive == Init /\ [][Next]_vars /\ FairLive

\* ------------------------------------------------------------------------
\* Allow statement by statement, one goroutine per request
\* ------------------------------------------------------------------------
\* Variant: no mutual exclusion.
CanLockAlways(p) == TRUE

\* rl.mutex.Lock() returns only when no goroutine holds the mutex.
CanLock(p) == mutex = NoProc

\* A request arrives: its goroutine calls rl.Allow(k).
Call(p, k) ==
    /\ pc[p] = "idle"
    /\ pc' = [pc EXCEPT ![p] = "lock"]
    /\ ip' = [ip EXCEPT ![p] = k]
    /\ UNCHANGED <<aux, clock, requests, mutex, now, validRequests, result,
                   ret, admitted, first, ncalls>>

\* rl.mutex.Lock()
Lock(p) ==
    /\ pc[p] = "lock"
    /\ CanLock(p)
    /\ mutex' = p
    /\ pc' = [pc EXCEPT ![p] = "now"]
    /\ UNCHANGED <<aux, clock, requests, ip, now, validRequests, result,
                   ret, admitted, first, ncalls>>

\* now := time.Now()
ReadNow(p) ==
    /\ pc[p] = "now"
    /\ now' = [now EXCEPT ![p] = clock]
    /\ pc' = [pc EXCEPT ![p] = "prune"]
    /\ UNCHANGED <<aux, clock, requests, mutex, ip, validRequests, result,
                   ret, admitted, first, ncalls>>

\* requests := rl.requests[ip], then the loop filling validRequests
PruneLoop(p) ==
    /\ pc[p] = "prune"
    /\ validRequests' =
          [validRequests EXCEPT ![p] = Prune(Lookup(requests, ip[p]), now[p])]
    /\ pc' = [pc EXCEPT ![p] = "check"]
    /\ UNCHANGED <<aux, clock, requests, mutex, ip, now, result,
                   ret, admitted, first, ncalls>>

\* if len(validRequests) >= 30 { return false }; append, store, return true
Check(p) ==
    /\ pc[p] = "check"
    /\ requests' = Decide(requests, ip[p], validRequests[p], now[p])
    /\ result' = [result EXCEPT ![p] = Returns(validRequests[p])]
    /\ Account(ip[p], now[p], Returns(validRequests[p]))
    /\ pc' = [pc EXCEPT ![p] = "unlock"]
    /\ UNCHANGED <<aux, clock, mutex, ip, now, validRequests>>

\* Variant: the mutex is released on the admit path only.
ReleasedOnAdmit(p) == IF mutex = p /\ result[p] THEN NoProc ELSE mutex

\* rl.mutex.Unlock(), deferred: it runs on every return.
Released(p) == IF mutex = p THEN NoProc ELSE mutex

\* defer rl.mutex.Unlock(), and the call returns
Unlock(p) ==
    /\ pc[p] = "unlock"
    /\ mutex' = Released(p)
    /\ pc' = [pc EXCEPT ![p] = "idle"]
    /\ now' = [now EXCEPT ![p] = 0]
    /\ validRequests' = [validRequests EXCEPT ![p] = <<>>]
    /\ result' = [result EXCEPT ![p] = FALSE]
    /\ UNCHANGED <<aux, clock, requests, ip, ret, admitted, first, ncalls>>

NextConc ==
    \/ \E d \in ConcSteps : Tick(d)
    \/ \E p \in Procs : \E k \in SlidingKeys : Call(p, k)
    \/ \E p \in Procs : Lock(p)
    \/ \E p \in Procs : ReadNow(p)
    \/ \E p \in Procs : PruneLoop(p)
    \/ \E p \in Procs : Check(p)
    \/ \E p \in Procs : Unlock(p)

SpecConc == Init /\ [][NextConc]_vars

\* The scheduler runs every goroutine that can take a step, and a goroutine
\* blocked in Lock() gets the mutex if it is released again and again
\* (sync.Mutex hands the mutex to a starving waiter).  Requests and clock
\* steps are the environment's and need not happen.
FairConc ==
    \A p \in Procs :
        /\ SF_vars(Lock(p))
        /\ WF_vars(ReadNow(p))
        /\ WF_vars(PruneLoop(p))
        /\ WF_vars(Check(p))
        /\ WF_vars(Unlock(p))

NextFair ==
    \/ Tick(Window)
    \/ \E p \in Procs : \E k \in SlidingKeys : Call(p, k)
    \/ \E p \in Procs : Lock(p)
    \/ \E p \in Procs : ReadNow(p)
    \/ \E p \in Procs : PruneLoop(p)
    \/ \E p \in Procs : Check(p)
    \/ \E p \in Procs : Unlock(p)

SpecFair == Init /\ [][NextFair]_vars /\ FairConc

\* ------------------------------------------------------------------------
\* getClientIP
\* ------------------------------------------------------------------------
\* Longest header values and peer addresses that are explored.
MaxHeaderLen == 2

MaxAddrLen == 4

HeaderChars == {"A", "B", ","}

AddrChars == {"A", "1", ":", "[", "]"}

\* All strings over chars of length at most n.
StringsUpTo(chars, n) == UNION {[1..m -> chars] : m \in 0..n}

\* strings.Index(s, c) and strings.LastIndex(s, c), counting from 1; 0: none.
Index(s, c) ==
    IF \E i \in 1..Len(s) : s[i] = c
        THEN CHOOSE i \in 1..Len(s) :
                 s[i] = c /\ \A j \in 1..(i - 1) : s[j] # c
        ELSE 0

LastIndex(s, c) ==
    IF \E i \in 1..Len(s) : s[i] = c
        THEN CHOOSE i \in 1..Len(s) :
                 s[i] = c /\ \A j \in (i + 1)..Len(s) : s[j] # c
        ELSE 0

\* s[a:b] of Go with 1-based a and inclusive b.
Slice(s, a, b) == IF a > b THEN <<>> ELSE SubSeq(s, a, b)

\* Variant: the last entry of the list is taken.
LastEntry(s) == Slice(s, LastIndex(s, ",") + 1, Len(s))

\* strings.Split(ip, ",")[0]
FirstEntry(s) ==
    IF Index(s, ",") = 0 THEN s ELSE Slice(s, 1, Index(s, ",") - 1)

\* net.SplitHostPort(hostport): the host, and whether an error is returned.
SplitHostPort(hostport) ==
    LET n == Len(hostport)
        i == LastIndex(hostport, ":")
        end == Index(hostport, "]")
        bracket == n > 0 /\ hostport[1] = "["
        host == IF bracket THEN Slice(hostport, 2, end - 1)
                           ELSE Slice(hostport, 1, i - 1)
        j == IF bracket THEN 2 ELSE 1
        k == IF bracket THEN end + 1 ELSE 1
        err ==
            \/ i = 0
            \/ bracket /\ (end = 0 \/ end + 1 # i)
            \/ ~bracket /\ Index(host, ":") # 0
            \/ Index(Slice(hostport, j, n), "[") # 0
            \/ Index(Slice(hostport, k, n), "]") # 0
    IN  [host |-> IF err THEN <<>> ELSE host, err |-> err]

\* Variant: the headers are not read, the key is the peer's host.
getClientIPPeerOnly(r) ==
    IF SplitHostPort(r.remote).err THEN r.remote
    ELSE SplitHostPort(r.remote).host

\* Variant: the real-IP header is preferred to the forwarded-for header.
getClientIPRealFirst(r) ==
    IF r.xri # <<>> THEN r.xri
    ELSE IF r.xff # <<>> THEN FirstEntry(r.xff)
    ELSE IF SplitHostPort(r.remote).err THEN r.remote
    ELSE SplitHostPort(r.remote).host

\* getClientIP(r); r.xff and r.xri are r.Header.Get of the two headers.
getClientIP(r) ==
    IF r.xff # <<>> THEN FirstEntry(r.xff)
    ELSE IF r.xri # <<>> THEN r.xri
    ELSE IF SplitHostPort(r.remote).err THEN r.remote
    ELSE SplitHostPort(r.remote).host

\* The requests whose key is resolved.
Resolvable ==
    [method : {"POST"},
     xff : StringsUpTo(HeaderChars, MaxHeaderLen),
     xri : StringsUpTo({"B"}, 1),
     remote : StringsUpTo(AddrChars, MaxAddrLen)]

\* A request r is at hand, the limiter is as constructed.
InitIP ==
    /\ clock = 0
    /\ requests = <<>>
    /\ mutex = NoProc
    /\ pc = [p \in Procs |-> "idle"]
    /\ ip = [p \in Procs |-> KeyA]
    /\ now = [p \in Procs |-> 0]
    /\ validRequests = [p \in Procs |-> <<>>]
    /\ result = [p \in Procs |-> FALSE]
    /\ ret = NoRet
    /\ admitted = [k \in Keys |-> <<>>]
    /\ first = [k \in Keys |-> NoCall]
    /\ ncalls = [k \in Keys |-> 0]
    /\ resp = NoResp
    /\ rq \in Resolvable
    /\ cip = NoKey
    /\ str = <<>>
    /\ idx = 0
    /\ hash = Zero
    /\ digest = NoDigest
    /\ returned = {}

\* ip := getClientIP(r)
Resolve ==
    /\ ~cip.done
    /\ cip' = [done |-> TRUE, key |-> getClientIP(rq)]
    /\ UNCHANGED <<clock, requests, locals, ret, admitted, first, ncalls,
                   resp, rq, str, idx, hash, digest, returned>>

NextIP == Resolve

SpecIP == InitIP /\ [][NextIP]_vars

\* ------------------------------------------------------------------------
\* collectHandler
\* ------------------------------------------------------------------------
\* The date of the day at whose midnight the clock reads 0.
StartDate == <<"2", "0", "2", "6", "-", "0", "1", "-", "0", "1">>

Digits == <<"0", "1", "2", "3", "4", "5", "6", "7", "8", "9">>

TwoDigits(n) == <<Digits[((n \div 10) % 10) + 1], Digits[(n % 10) + 1]>>

\* time.Now().Format("2006-01-02 15:04:05")
FormatTime(t) ==
    StartDate \o <<" ">> \o TwoDigits(t \div 3600) \o <<":">>
        \o TwoDigits((t \div 60) % 60) \o <<":">> \o TwoDigits(t % 60)

\* json.NewDecoder(r.Body).Decode(&info): the fields of the body, or an error.
Decode(body) ==
    [err |-> ~body.wellformed,
     info |-> [present |-> TRUE, Timestamp |-> body.Timestamp,
               IPAddress |-> body.IPAddress, UserAgent |-> body.UserAgent]]

\* Variant: the client's ipAddress field is left as submitted.
StampTimeOnly(info, k, t) == [info EXCEPT !.Timestamp = FormatTime(t)]

\* info.Timestamp = time.Now().Format(...); info.IPAddress = ip
Stamp(info, k, t) ==
    [info EXCEPT !.Timestamp = FormatTime(t), !.IPAddress = k]

Answer(r, body, code, status, data) ==
    [served |-> TRUE, req |-> r, body |-> body, code |-> code,
     status |-> status, data |-> data]

\* Variant: the result of Allow is not acted upon.
RespondUnlimited(r, body, k, ok, t) ==
    IF Decode(body).err THEN Answer(r, body, 400, "error", NoData)
    ELSE Answer(r, body, 200, "success", Stamp(Decode(body).info, k, t))

\* The handler from the limiter check on: 429 when Allow returned false,
\* 400 when the body does not decode, 200 with the stamped record otherwise.
Respond(r, body, k, ok, t) ==
    IF ~ok THEN Answer(r, body, 429, "error", NoData)
    ELSE IF Decode(body).err THEN Answer(r, body, 400, "error", NoData)
    ELSE Answer(r, body, 200, "success", Stamp(Decode(body).info, k, t))

SkipRet == [NoRet EXCEPT !.op = "Skip"]

\* The requests and bodies submitted to /collect.
Direct == [method |-> "POST", xff |-> <<>>, xri |-> <<>>,
           remote |-> <<"A", ":", "1">>]

Proxied == [method |-> "POST", xff |-> <<"B", ",", "A">>, xri |-> <<"A">>,
            remote |-> <<"A", ":", "1">>]

Spoofing == [wellformed |-> TRUE, Timestamp |-> <<"x">>,
             IPAddress |-> <<"Z">>, UserAgent |-> <<"u">>]

Sparse == [wellformed |-> TRUE, Timestamp |-> <<>>, IPAddress |-> <<>>,
           UserAgent |-> <<"v">>]

Bodies == {NoBody, Spoofing, Sparse}

\* Every POST with every body.
Submitted == [r : {Direct, Proxied}, body : Bodies]

\* if r.Method == "OPTIONS"
IsPreflight(r) == r.method = "OPTIONS"

\* Variant: the method is not tested.
NotPostNever(r) == FALSE

\* if r.Method != "POST"
NotPost(r) == r.method # "POST"

\* collectHandler(w, r), r carrying the given body.
Collect(r, body) ==
    /\ mutex = NoProc
    /\ IF IsPreflight(r) THEN
          /\ resp' = Answer(r, body, 200, "", NoData)
          /\ ret' = SkipRet
          /\ UNCHANGED <<requests, admitted, first, ncalls>>
       ELSE IF NotPost(r) THEN
          /\ resp' = Answer(r, body, 405, "error", NoData)
          /\ ret' = SkipRet
          /\ UNCHANGED <<requests, admitted, first, ncalls>>
       ELSE
          LET k == getClientIP(r)
              valid == Prune(Lookup(requests, k), clock)
          IN  /\ requests' = Decide(requests, k, valid, clock)
              /\ Account(k, clock, Returns(valid))
              /\ resp' = Respond(r, body, k, Returns(valid), clock)
    /\ UNCHANGED <<clock, locals, page>>

NextHttp ==
    \/ Tick(Window)
    \/ \E sub \in Submitted : Collect(sub.r, sub.body)

SpecHttp == Init /\ [][NextHttp]_vars

\* One request of each other method, and the POST of the client of the
\* GET.
OffPost ==
    [r : {[Direct EXCEPT !.method = "GET"],
          [Proxied EXCEPT !.method = "OPTIONS"]},
     body : {Spoofing}]

NextMethods ==
    \/ Tick(Window)
    \/ \E sub \in OffPost : Collect(sub.r, sub.body)
    \/ Collect(Direct, Sparse)

SpecMethods == Init /\ [][NextMethods]_vars

\* One peer submits with two forwarded-for headers whose first entries
\* differ.
ForwardedA == [method |-> "POST", xff |-> <<"A", ",", "B">>, xri |-> <<>>,
               remote |-> <<"A", ":", "1">>]

PeerRequests == {Proxied, ForwardedA}

NextPeer ==
    \/ Tick(Window)
    \/ \E r \in PeerRequests : Collect(r, Sparse)

SpecPeer == Init /\ [][NextPeer]_vars

\* ------------------------------------------------------------------------
\* hashString, the script of the page
\* ------------------------------------------------------------------------
\* Longest argument explored, and the character codes it is made of
\* (charCodeAt returns a UTF-16 code unit, 0 to 65535).
MaxStrLen == 6

CharCodes == {0, 1, 97, 65535}

Times(x, k) == Num(x.hi * k, x.lo * k)

Minus(x, y) == Num(x.hi - y.hi, x.lo - y.lo)

Plus(x, c) == Num(x.hi, x.lo + c)

\* ToInt32 of the language: the operand modulo 2^32, taken in the signed
\* 32-bit range.  The operands of << and & are converted by it.
ToInt32(x) == Num(((x.hi + 2^15) % Word) - 2^15, x.lo)

\* Variant: a shift by four.
ShiftLeft4(h) == ToInt32(Times(ToInt32(h), 16))

\* hash << 5
ShiftLeft5(h) == ToInt32(Times(ToInt32(h), 32))

\* Variant: the accumulator is not shifted.
StepUnshifted(h, c) == ToInt32(Plus(h, c))

\* Variant: no conversion to 32 bits.
StepUntruncated(h, c) == Plus(Minus(ShiftLeft5(h), h), c)

\* hash = ((hash << 5) - hash) + char; hash = hash & hash
Step(h, c) == ToInt32(Plus(Minus(ShiftLeft5(h), h), c))

\* -x
Negate(x) == Num(0 - x.hi, 0 - x.lo)

\* Variant: the absolute value is taken in 32 bits.
AbsInt32(x) == ToInt32(IF x.hi < 0 THEN Negate(x) ELSE x)

\* Variant: the sign is kept.
AbsKept(x) == x

\* Math.abs(hash)
Abs(x) == IF x.hi < 0 THEN Negate(x) ELSE x

HexDigits == <<"0", "1", "2", "3", "4", "5", "6", "7", "8", "9",
               "a", "b", "c", "d", "e", "f">>

\* The digits of n in the radix, most significant first, none for 0.
RECURSIVE DigitsOf(_, _)
DigitsOf(n, radix) ==
    IF n = 0 THEN <<>>
    ELSE Append(DigitsOf(n \div radix, radix), HexDigits[(n % radix) + 1])

\* The digits of the low part below a high part that is not 0: four
\* hexadecimal digits.
LowDigits(n, radix) ==
    LET d == DigitsOf(n, radix)
    IN  [i \in 1..(4 - Len(d)) |-> "0"] \o d

\* The digits of a number that is not negative; a number of 2^16 or more is
\* rendered in radix 16, the only radix the script renders such a number in.
Magnitude(x, radix) ==
    IF x.hi = 0 THEN DigitsOf(x.lo, radix)
    ELSE DigitsOf(x.hi, radix) \o LowDigits(x.lo, radix)

\* Variant: zero is rendered with no digit.
toStringNoZero(x, radix) ==
    IF x.hi < 0 THEN <<"-">> \o Magnitude(Negate(x), radix)
    ELSE Magnitude(x, radix)

\* Number.prototype.toString(radix) of a whole number.
toString(x, radix) ==
    IF x = Zero THEN <<"0">>
    ELSE IF x.hi < 0 THEN <<"-">> \o Magnitude(Negate(x), radix)
    ELSE Magnitude(x, radix)

\* An argument whose accumulator ends at -2^31:
\* 2325*31^4 + 9*31^3 + 30*31^2 + 12*31 + 2 = 2^31.
MinSignal == <<2325, 9, 30, 12, 2>>

\* An argument whose accumulator ends at -1:
\* 4650*31^4 + 19*31^3 + 29*31^2 + 24*31 + 3 = 2^32 - 1.
MinusOneSignal == <<4650, 19, 29, 24, 3>>

\* The accumulator after the first n iterations of the loop on s.
RECURSIVE Loop(_, _)
Loop(s, n) == IF n = 0 THEN Zero ELSE Step(Loop(s, n - 1), s[n])

\* hashString as a function of its argument.
hashString(s) ==
    IF Len(s) = 0 THEN toString(Zero, 10)
    ELSE toString(Abs(Loop(s, Len(s))), 16)

\* The arguments hashString is called with.
Signals == StringsUpTo(CharCodes, MaxStrLen) \cup {MinSignal, MinusOneSignal}

\* hashString(str) is called: let hash = 0.
InitHash ==
    /\ clock = 0
    /\ requests = <<>>
    /\ mutex = NoProc
    /\ pc = [p \in Procs |-> "idle"]
    /\ ip = [p \in Procs |-> KeyA]
    /\ now = [p \in Procs |-> 0]
    /\ validRequests = [p \in Procs |-> <<>>]
    /\ result = [p \in Procs |-> FALSE]
    /\ ret = NoRet
    /\ admitted = [k \in Keys |-> <<>>]
    /\ first = [k \in Keys |-> NoCall]
    /\ ncalls = [k \in Keys |-> 0]
    /\ resp = NoResp
    /\ rq = NoRequest
    /\ cip = NoKey
    /\ str \in Signals
    /\ idx = 0
    /\ hash = Zero
    /\ digest = NoDigest
    /\ returned = {}

hashFrame == <<clock, requests, locals, ret, admitted, first, ncalls,
               resp, rq, cip, str>>

\* What the return of d for the argument s leaves in the history.
Recorded(log, s, d) ==
    log \cup {[str |-> s, digest |-> d,
               again |-> \E e \in log : e.str = s]}

\* if (str.length === 0) return hash.toString();
HashEmpty ==
    /\ digest = NoDigest /\ Len(str) = 0
    /\ digest' = toString(hash, 10)
    /\ returned' = Recorded(returned, str, digest')
    /\ UNCHANGED <<hashFrame, idx, hash>>

\* One iteration of the loop over the characters.
HashLoop ==
    /\ digest = NoDigest /\ idx < Len(str)
    /\ hash' = Step(hash, str[idx + 1])
    /\ idx' = idx + 1
    /\ UNCHANGED <<hashFrame, digest, returned>>

\* return Math.abs(hash).toString(16);
HashReturn ==
    /\ digest = NoDigest /\ Len(str) > 0 /\ idx = Len(str)
    /\ digest' = toString(Abs(hash), 16)
    /\ returned' = Recorded(returned, str, digest')
    /\ UNCHANGED <<hashFrame, idx, hash>>

NextHash == HashEmpty \/ HashLoop \/ HashReturn

SpecHash == InitHash /\ [][NextHash]_vars

\* ------------------------------------------------------------------------
\* The page calls hashString again and again while the server runs Allow
\* ------------------------------------------------------------------------
\* Two arguments of two characters with the accumulator 31, and the argument
\* with the accumulator 1.
OneZero == <<1, 0>>

ZeroThirtyOne == <<0, 31>>

One == <<1>>

\* The arguments of the calls after the first.
PageSignals == {<<>>, OneZero, ZeroThirtyOne, One, MinusOneSignal}

\* Variant: the accumulator of the call before is kept.
LetHashKept(h) == h

\* let hash = 0;
LetHash(h) == Zero

\* hashString(s) is called once the call before has returned.
HashCall(s) ==
    /\ digest # NoDigest
    /\ str' = s
    /\ idx' = 0
    /\ hash' = LetHash(hash)
    /\ digest' = NoDigest
    /\ UNCHANGED <<clock, requests, locals, ret, admitted, first, ncalls,
                   resp, rq, cip, returned>>

NextPage ==
    \/ \E s \in PageSignals : HashCall(s)
    \/ HashEmpty
    \/ HashLoop
    \/ HashReturn
    \/ \E k \in SlidingKeys : Allow(k)

SpecPage == Init /\ [][NextPage]_vars

\* ------------------------------------------------------------------------
\* Helpers of the properties
\* ------------------------------------------------------------------------
\* The entries of s younger than Window at time t, in the order of s.
RECURSIVE Young(_, _)
Young(s, t) ==
    IF s = <<>> THEN <<>>
    ELSE (IF t - Head(s) < Window THEN <<Head(s)>> ELSE <<>>)
             \o Young(Tail(s), t)

\* The goroutines between Lock() and Unlock().
InCritical == {p \in Procs : pc[p] \in {"now", "prune", "check", "unlock"}}

\* The step is a call of Allow (under Spec and SpecKeys, where a call is
\* one step and every other step sets ret.op to "Tick").
IsAllowStep == ret'.op = "Allow"

\* ------------------------------------------------------------------------
\* Properties
\* ------------------------------------------------------------------------
\* C1: for every key, the calls of Allow that returned true with a time in
\* the trailing window (clock - Window, clock] number at most Limit.  Every
\* admission carries the clock of its call, so a window ending at any
\* instant holds no more admissions than the window ending at the latest
\* admission before it, which is a state of the run.
C1_RateBound ==
    \A k \in Keys : CountIn(admitted[k], clock) <= Limit

\* A denial with Limit admissions in the window, spread over several instants.
C1_Witness ==
    /\ ret.op = "Allow" /\ ~ret.ok
    /\ CountIn(admitted[ret.key], clock) = Limit
    /\ admitted[ret.key][1] < clock

\* C2: under any interleaving of concurrent calls for one key, at most one
\* call is between Lock and Unlock, the stored sequence never holds more
\* than Limit entries and no more than Limit calls are admitted within a
\* window; two calls that meet at Limit - 1 entries are not both admitted.
C2_CriticalSection ==
    /\ Cardinality(InCritical) <= 1
    /\ \A k \in DOMAIN requests : Len(requests[k]) <= Limit
    /\ \A k \in Keys : CountIn(admitted[k], clock) <= Limit

\* One goroutine has just been admitted as the last of the window while the
\* other, called for the same key, waits for the mutex.
C2_Witness ==
    /\ pc["p1"] = "unlock" /\ result["p1"]
    /\ Len(Lookup(requests, ip["p1"])) = Limit
    /\ pc["p2"] = "lock" /\ ip["p2"] = ip["p1"]

\* C3: a call of Allow that returns false leaves the whole map unchanged.
C3_DenyFrame ==
    [][IsAllowStep /\ ~ret'.ok => requests' = requests]_vars

\* A key has been denied while the other key has a sequence of its own.
C3_Witness ==
    /\ ret.op = "Allow" /\ ~ret.ok
    /\ DOMAIN requests = Keys
    /\ Len(requests[ret.key]) = Limit

\* C4: Allow(k) at time clock returns true exactly when fewer than Limit
\* stored times of k are younger than Window; when it returns true the
\* stored sequence of k becomes those times, in order, followed by clock.
C4_Decision ==
    [][IsAllowStep =>
          LET k == ret'.key
              old == Lookup(requests, k)
          IN  /\ ret'.ok <=> Len(Young(old, clock)) < Limit
              /\ ret'.ok => /\ k \in DOMAIN requests'
                            /\ requests'[k] = Append(Young(old, clock), clock)
      ]_vars

\* An admission that filled the window with times of several instants.
C4_Witness ==
    /\ ret.op = "Allow" /\ ret.ok
    /\ Len(Lookup(requests, ret.key)) = Limit
    /\ requests[ret.key][1] < clock

\* C5: counting the calls of a key from its first call, while less than
\* Window has passed since that call, the first Limit calls return true and
\* every later one returns false.
C5_FirstSpan ==
    ret.op = "Allow" /\ first[ret.key] >= 0 =>
        (ret.ok <=> ncalls[ret.key] <= Limit)

\* A call beyond the (Limit+1)-th, later in the span than the first, denied.
C5_Witness ==
    /\ ret.op = "Allow" /\ ~ret.ok
    /\ first[ret.key] >= 0 /\ first[ret.key] < clock
    /\ ncalls[ret.key] >= Limit + 2

\* C6: a key whose oldest stored admission is Window old or older is
\* admitted by its next call; when exactly one of Limit stored admissions
\* has expired, the next call is admitted, Limit admissions are again in
\* the window, and the call right after it is denied.
C6_Sliding ==
    /\ [][IsAllowStep /\ Lookup(requests, ret'.key) # <<>>
             /\ clock - Lookup(requests, ret'.key)[1] >= Window
          => ret'.ok]_vars
    /\ [][IsAllowStep /\ OneExpired(requests, ret'.key, clock)
          => /\ ret'.ok
             /\ CountIn(Lookup(requests', ret'.key), clock') = Limit]_vars
    /\ [](ret.op = "Allow" /\ ret.afterSlid => ~ret.ok)

\* The call that follows the admission replacing one expired entry, denied.
C6_Witness ==
    /\ ret.op = "Allow" /\ ret.afterSlid /\ ~ret.ok
    /\ CountIn(Lookup(requests, ret.key), clock) = Limit

\* C7: a call Allow(a) leaves the entry of every other key as it was, and
\* its result is decided by the admissions of a alone: it is denied exactly
\* when Limit admissions of a itself lie in the window.
C7_Independent ==
    [][IsAllowStep =>
          /\ \A b \in Keys \ {ret'.key} :
                /\ b \in DOMAIN requests' <=> b \in DOMAIN requests
                /\ Lookup(requests', b) = Lookup(requests, b)
          /\ ret'.ok <=> CountIn(admitted[ret'.key], clock) < Limit
      ]_vars

\* B is admitted while A is at its limit.
C7_Witness ==
    /\ ret.op = "Allow" /\ ret.key = KeyB /\ ret.ok
    /\ CountIn(Lookup(requests, KeyA), clock) = Limit

\* C8: every stored sequence holds at most Limit times.
C8_LenBound ==
    \A k \in DOMAIN requests : Len(requests[k]) <= Limit

\* A full sequence, and a denied call on it.
C8_Witness ==
    /\ ret.op = "Allow" /\ ~ret.ok
    /\ Len(Lookup(requests, ret.key)) = Limit

\* C9 as stated: in every state, also after the clock advanced without a
\* call, every stored time is younger than Window.
C9_NeverStale ==
    \A k \in DOMAIN requests :
        \A i \in 1..Len(requests[k]) : clock - requests[k][i] < Window

\* C9 amended: in the state a call Allow(k) returns in, every time stored
\* for k is younger than Window; expired times stay stored while the clock
\* advances and until the next admitted call of k.
C9_FreshAfterCall ==
    ret.op = "Allow" =>
        \A i \in 1..Len(Lookup(requests, ret.key)) :
            clock - requests[ret.key][i] < Window

\* A call that found an expired entry stored and discarded it.
C9_Witness ==
    /\ ret.op = "Allow" /\ ret.slid
    /\ Len(Lookup(requests, ret.key)) = Limit

\* C10: a call of Allow keeps every stored time younger than Window, and a
\* stored time disappears only in a call Allow(k) at which it is Window old
\* or older.
C10_PruneOnlyExpired ==
    [][\A k \in DOMAIN requests :
          \A x \in {requests[k][i] : i \in 1..Len(requests[k])} :
             LET before == Occurs(requests[k], x)
                 after == Occurs(Lookup(requests', k), x)
             IN  /\ clock' - x < Window => after >= before
                 /\ after < before =>
                       /\ ret'.op = "Allow" /\ ret'.key = k
                       /\ clock' - x >= Window
      ]_vars

\* An admission that discarded one expired time and kept the younger ones.
C10_Witness ==
    /\ ret.op = "Allow" /\ ret.ok /\ ret.slid
    /\ requests[ret.key][1] < clock
    /\ requests[ret.key][Limit] = clock

\* C11: under concurrent calls every stored sequence is in non-decreasing
\* order of time: now is read between Lock and Unlock, so the order of the
\* appends is the order of the clock readings.
C11_Chronological ==
    \A k \in DOMAIN requests :
        \A i \in 1..(Len(requests[k]) - 1) :
            requests[k][i] <= requests[k][i + 1]

\* A stored sequence with times of two instants, one goroutine inside the
\* critical section and the other waiting for the mutex.
C11_Witness ==
    /\ Len(Lookup(requests, KeyA)) >= 2
    /\ requests[KeyA][1] < requests[KeyA][Len(requests[KeyA])]
    /\ pc["p1"] = "check" /\ pc["p2"] = "lock"

\* C12: every call of Allow returns: a goroutine that called Allow reaches
\* its return whether it is admitted or denied, and the mutex is never held
\* by a goroutine that is not between Lock and Unlock.
C12_Terminates ==
    /\ [](\A p \in Procs : mutex = p => p \in InCritical)
    /\ [](mutex = NoProc => InCritical = {})
    /\ \A p \in Procs : (pc[p] # "idle") ~> (pc[p] = "idle")

\* A denied call has returned and the mutex is free again.
C12_Witness ==
    /\ ret.op = "Allow" /\ ~ret.ok
    /\ mutex = NoProc
    /\ \A p \in Procs : pc[p] = "idle"

\* C13: a key present in the map is present in every later state: no step,
\* call or clock advance, removes a key.
C13_NeverEvicted ==
    [][DOMAIN requests \subseteq DOMAIN requests']_vars

\* Both keys are present, one of them with nothing but expired times, and
\* the other has just been admitted.
C13_Witness ==
    /\ DOMAIN requests = Keys
    /\ ret.op = "Allow" /\ ret.key = KeyB /\ ret.ok
    /\ CountIn(requests[KeyA], clock) = 0

\* The peer addresses made of a host and a port: host:port with neither
\* colon nor bracket in either part, or [host]:port with no bracket in the
\* host and neither colon nor bracket in the port.
Plain(s, chars) == \A i \in 1..Len(s) : s[i] \notin chars

HostOf(addr) ==
    LET n == Len(addr) IN
    {Slice(addr, 1, i - 1) : i \in
        {i \in 1..n : /\ addr[i] = ":"
                      /\ Plain(Slice(addr, i + 1, n), {":", "[", "]"})
                      /\ Plain(Slice(addr, 1, i - 1), {":", "[", "]"})}}
    \cup
    {Slice(addr, 2, i - 2) : i \in
        {i \in 3..n : /\ addr[i] = ":" /\ addr[1] = "[" /\ addr[i - 1] = "]"
                      /\ Plain(Slice(addr, i + 1, n), {":", "[", "]"})
                      /\ Plain(Slice(addr, 2, i - 2), {"[", "]"})}}

\* The first entry of a comma-separated list: what precedes the first
\* comma, or the whole list when it has none.
Entries(s) ==
    {Slice(s, 1, i - 1) : i \in
        {i \in 1..(Len(s) + 1) :
            /\ i = Len(s) + 1 \/ s[i] = ","
            /\ Plain(Slice(s, 1, i - 1), {","})}}

\* C17: the key is the first comma-separated entry of the forwarded-for
\* header when that header is not empty; otherwise the real-IP header when
\* it is not empty; otherwise the peer address without its port (the host
\* of host:port or [host]:port; an address with no port is taken whole).
C17_Priority ==
    cip.done =>
        /\ rq.xff # <<>> => cip.key \in Entries(rq.xff)
        /\ rq.xff = <<>> /\ rq.xri # <<>> => cip.key = rq.xri
        /\ rq.xff = <<>> /\ rq.xri = <<>> =>
              IF HostOf(rq.remote) # {} THEN cip.key \in HostOf(rq.remote)
                                        ELSE cip.key = rq.remote

\* A forwarded-for list of two entries wins over the real-IP header and
\* over the peer address.
C17_Witness ==
    /\ cip.done
    /\ rq.xff = <<"A", ",">> /\ rq.xri = <<"B">>
    /\ rq.remote = <<"[", "1", "]", ":">>
    /\ cip.key = <<"A">>

\* The request just served was an accepted POST (Allow was called for it).
Limited == resp.served /\ resp.req.method = "POST"

\* C14 as stated: a POST whose body does not decode is answered without
\* the limiter being touched: the step that serves it changes no stored
\* sequence and admits nothing.
C14_DecodeBeforeAllow ==
    [][resp'.served /\ resp'.req.method = "POST" /\ ~resp'.body.wellformed
          => requests' = requests /\ admitted' = admitted]_vars

\* The value of a decimal digit, and of a text of digits.
DigitValue(c) == CHOOSE d \in 0..9 : Digits[d + 1] = c

IsDigit(c) == \E d \in 0..9 : Digits[d + 1] = c

PairValue(s, i) == 10 * DigitValue(s[i]) + DigitValue(s[i + 1])

\* s has the shape YYYY-MM-DD HH:MM:SS.
IsTimestamp(s) ==
    /\ Len(s) = 19
    /\ s[5] = "-" /\ s[8] = "-" /\ s[11] = " " /\ s[14] = ":" /\ s[17] = ":"
    /\ \A i \in (1..19) \ {5, 8, 11, 14, 17} : IsDigit(s[i])

\* The second of the day that a timestamp names.
SecondOfDay(s) == 3600 * PairValue(s, 12) + 60 * PairValue(s, 15)
                     + PairValue(s, 18)

\* C15: a POST that Allow denies is answered 429 with status "error" and no
\* record, whatever its body; and counting the decodable submissions of a
\* key from its first call, within the same second, the first Limit are
\* answered with a record and every later one with none.
C15_DeniedNoRecord ==
    /\ Limited /\ ret.op = "Allow" /\ ~ret.ok =>
          resp.code = 429 /\ resp.status = "error" /\ resp.data = NoData
    /\ Limited /\ ret.op = "Allow" /\ resp.body.wellformed
          /\ first[ret.key] = clock =>
          (resp.data.present <=> ncalls[ret.key] <= Limit)

\* The 31st decodable submission of a key within one second, denied.
C15_Witness ==
    /\ Limited /\ resp.body.wellformed
    /\ ret.op = "Allow" /\ ~ret.ok
    /\ first[ret.key] = clock /\ ncalls[ret.key] = Limit + 1
    /\ resp.code = 429 /\ ~resp.data.present

\* C16: the record returned for an admitted, decoded submission carries the
\* key passed to Allow as ipAddress and the server's time as timestamp,
\* whatever the client put in those fields, and the userAgent as decoded.
C16_ServerAssigned ==
    resp.served /\ resp.data.present =>
        /\ resp.code = 200 /\ resp.status = "success"
        /\ ret.op = "Allow" /\ ret.ok
        /\ resp.data.IPAddress = ret.key
        /\ IsTimestamp(resp.data.Timestamp)
        /\ SecondOfDay(resp.data.Timestamp) = clock
        /\ resp.data.UserAgent = resp.body.UserAgent

\* A proxied submission that claims another address and time, at a clock
\* other than 0, answered with a record.
C16_Witness ==
    /\ resp.served /\ resp.data.present
    /\ resp.req = Proxied /\ resp.body = Spoofing
    /\ resp.data.IPAddress = KeyB /\ resp.data.IPAddress # resp.body.IPAddress
    /\ resp.data.Timestamp # resp.body.Timestamp
    /\ clock > 0

\* x brought into the signed 32-bit range by adding a multiple of 2^32.
Wrap32(x) ==
    LET h == x.hi % Word
    IN  [hi |-> IF h >= 2^15 THEN h - Word ELSE h, lo |-> x.lo]

\* a * 31 + c, not wrapped.
Times31Plus(a, c) == Num(a.hi * 31, (a.lo * 31) + c)

\* The accumulator after the first n characters of s: 0, then acc*31 + c
\* wrapped to 32 bits for each character code c in order.
RECURSIVE Acc31(_, _)
Acc31(s, n) ==
    IF n = 0 THEN [hi |-> 0, lo |-> 0]
    ELSE Wrap32(Times31Plus(Acc31(s, n - 1), s[n]))

\* x lies in [-2^31, 2^31 - 1].
IsInt32(x) ==
    /\ x.lo \in 0..(Word - 1)
    /\ 0 - 2^15 <= x.hi /\ x.hi < 2^15

\* |x|.
AbsoluteValue(x) ==
    IF x.hi >= 0 THEN x
    ELSE IF x.lo = 0 THEN [hi |-> 0 - x.hi, lo |-> 0]
    ELSE [hi |-> (0 - x.hi) - 1, lo |-> Word - x.lo]

\* The number a text of lowercase hexadecimal digits denotes (-1: none).
HexDigitValue(c) ==
    IF \E d \in 0..15 : HexDigits[d + 1] = c
        THEN CHOOSE d \in 0..15 : HexDigits[d + 1] = c
        ELSE 0 - 1

RECURSIVE HexValue(_)
HexValue(s) ==
    IF s = <<>> THEN 0
    ELSE 16 * HexValue(SubSeq(s, 1, Len(s) - 1)) + HexDigitValue(s[Len(s)])

\* The number a text of at most eight hexadecimal digits denotes: the last
\* four digits are the low part.
HexNum(s) ==
    IF Len(s) <= 4 THEN [hi |-> 0, lo |-> HexValue(s)]
    ELSE [hi |-> HexValue(SubSeq(s, 1, Len(s) - 4)),
          lo |-> HexValue(SubSeq(s, Len(s) - 3, Len(s)))]

\* s is the hexadecimal rendering of x: lowercase digits only, no leading
\* zero except for "0" itself, denoting x.
IsHexOf(s, x) ==
    /\ Len(s) >= 1 /\ Len(s) <= 8
    /\ \A i \in 1..Len(s) : HexDigitValue(s[i]) >= 0
    /\ Len(s) > 1 => s[1] # "0"
    /\ HexNum(s) = x

\* C18: after every step the accumulator is the fold acc*31 + c of the
\* characters read so far, wrapped to signed 32 bits, and lies in
\* [-2^31, 2^31 - 1]; the value returned is the hexadecimal rendering of the
\* absolute value of the final accumulator.
C18_HashIsFold ==
    /\ hash = Acc31(str, idx)
    /\ IsInt32(hash)
    /\ digest # NoDigest =>
          /\ idx = Len(str)
          /\ IsHexOf(digest, AbsoluteValue(Acc31(str, Len(str))))

\* A digest returned for an argument whose fold left the 32-bit range on
\* the way and ended negative.
C18_Witness ==
    /\ digest # NoDigest /\ hash.hi < 0
    /\ \E n \in 1..Len(str) :
          ~IsInt32(Times31Plus(Acc31(str, n - 1), str[n]))

\* The accumulators and character codes at which the update is compared,
\* besides those the runs reach: the ends of the 32-bit range, the values
\* around which a shift by five leaves it, and the values around 0.
EdgeAccs ==
    {[hi |-> h, lo |-> l] :
        h \in {0 - 2^15, 1 - 2^15, 0 - 2^10 - 1, 0 - 2^10, 0 - 1, 0,
               2^10 - 1, 2^10, 2^15 - 2, 2^15 - 1},
        l \in {0, 1, 2^11 - 1, 2^11, Word - 2, Word - 1}}

EdgeCodes == CharCodes \cup {65534, 32768}

\* The update as the code computes it and as acc*31 + c wrapped agree on a
\* and c.
Agree(a, c) == Step(a, c) = Wrap32(Times31Plus(a, c))

EdgesAgree == \A a \in EdgeAccs : \A c \in EdgeCodes : Agree(a, c)

\* C19: for the accumulators reached and the edge accumulators, and every
\* character code explored, shift-subtract-add then truncation to 32 bits
\* gives the same value as acc*31 + c truncated to 32 bits.
C19_ShiftIsTimes31 ==
    /\ EdgesAgree
    /\ \A c \in EdgeCodes : Agree(hash, c)

\* An accumulator is reached whose shift by five does not fit in 32 bits,
\* with a character still to read.
C19_Witness ==
    /\ idx > 0 /\ idx < Len(str)
    /\ hash.hi < 0 /\ ~IsInt32(Times(hash, 32))
    /\ ShiftLeft5(hash) # Times(hash, 32)

\* C20: hashString of the empty string returns "0".
C20_EmptyIsZero ==
    str = <<>> /\ digest # NoDigest => digest = <<"0">>

\* The call on the empty string has returned.
C20_Witness ==
    /\ str = <<>> /\ idx = 0 /\ hash.hi = 0 /\ hash.lo = 0
    /\ digest = <<"0">>

\* The texts made of lowercase hexadecimal digits only, with no leading
\* zero unless the text is "0".
IsLowerHex(s) ==
    /\ Len(s) >= 1
    /\ \A i \in 1..Len(s) : \E d \in 1..16 : s[i] = HexDigits[d]
    /\ Len(s) > 1 => s[1] # "0"

\* -2^31
MinInt32 == [hi |-> 0 - 2^15, lo |-> 0]

\* C21: every digest returned is made of the digits 0-9 and a-f only, with
\* no sign and no leading zero unless it is "0", also when the accumulator
\* ends negative or at -2^31.
C21_LowerHex ==
    digest # NoDigest => IsLowerHex(digest)

\* The digest of an argument whose accumulator ends at -2^31 is returned.
C21_Witness ==
    /\ digest # NoDigest /\ idx = Len(str)
    /\ hash = MinInt32
    /\ IsLowerHex(digest) /\ Len(digest) = 8

\* C22: two evaluations of hashString on the same argument return the same
\* digest, whatever calls of hashString and of Allow were made before or
\* between them.
C22_Deterministic ==
    \A a \in returned : \A b \in returned :
        a.str = b.str => a.digest = b.digest

\* An argument of two characters was evaluated twice, with calls on other
\* arguments and calls of Allow made as well.
C22_Witness ==
    /\ \E a \in returned : \E b \in returned :
          /\ a.str = OneZero /\ b.str = OneZero
          /\ ~a.again /\ b.again
    /\ \E c \in returned : c.str = MinusOneSignal
    /\ KeyA \in DOMAIN requests /\ ret.op = "Allow"

\* The digests returned for the argument s.
DigestsOf(s) == {e.digest : e \in {r \in returned : r.str = s}}

\* C24: hashString is not injective.  The two-character arguments <<1, 0>>
\* and <<0, 31>>, whose accumulators are equal, get the same digest; the
\* arguments with the accumulators 1 and -1, equal in absolute value, get
\* the same digest.
C24_Collisions ==
    /\ \A d \in DigestsOf(OneZero) : \A g \in DigestsOf(ZeroThirtyOne) : d = g
    /\ \A d \in DigestsOf(One) : \A g \in DigestsOf(MinusOneSignal) : d = g

\* All four arguments have been evaluated: two pairs of distinct arguments
\* with one digest each.
C24_Witness ==
    /\ OneZero # ZeroThirtyOne /\ One # MinusOneSignal
    /\ DigestsOf(OneZero) # {}
    /\ DigestsOf(OneZero) = DigestsOf(ZeroThirtyOne)
    /\ DigestsOf(One) # {}
    /\ DigestsOf(One) = DigestsOf(MinusOneSignal)

\* str with its two characters swapped.
Swapped(s) == <<s[2], s[1]>>

\* The character codes of the two-character arguments compared besides
\* those the runs reach.
SwapCodes == EdgeCodes \cup {30, 31, 32}

SwapsDiffer ==
    \A a \in SwapCodes : \A b \in SwapCodes :
        a # b => hashString(<<a, b>>) # hashString(<<b, a>>)

\* C23: hashString depends on the order of the characters.  The value
\* returned for an argument of two characters is hashString of the
\* argument, and when the two characters differ it is not the digest of the
\* argument with the two characters swapped.
C23_OrderSensitive ==
    /\ SwapsDiffer
    /\ (digest # NoDigest /\ Len(str) = 2)
          => /\ digest = hashString(str)
             /\ str[1] # str[2] => digest # hashString(Swapped(str))

\* The digest of a two-character argument is returned and differs from
\* the digest of the swapped argument.
C23_Witness ==
    /\ digest # NoDigest /\ idx = 2
    /\ str = <<97, 65535>>
    /\ digest = hashString(str)
    /\ digest # hashString(Swapped(str))

\* C25: a stored time exactly Window old at a call counts as expired.  A
\* call that finds Limit stored times, all exactly Window old, is admitted
\* and leaves its own time alone; of the calls that follow it at the same
\* instant none is denied before Limit times of that instant are stored,
\* so that Limit admissions at t and Limit admissions at t + Window exist.
C25_BoundaryExclusive ==
    /\ [][IsAllowStep /\ AllAtEdge(requests, ret'.key, clock)
          => /\ ret'.ok
             /\ requests'[ret'.key] = <<clock>>]_vars
    /\ [](ret.op = "Allow" /\ ret.renewed /\ ~ret.ok
          => /\ Len(Lookup(requests, ret.key)) = Limit
             /\ \A i \in 1..Limit : requests[ret.key][i] = clock)

\* The Limit-th admission at t + Window after Limit admissions at t.
C25_Witness ==
    /\ ret.op = "Allow" /\ ret.renewed /\ ret.ok
    /\ clock >= Window
    /\ Len(Lookup(requests, ret.key)) = Limit
    /\ \A i \in 1..Limit : requests[ret.key][i] = clock

\* C26: in the state a call Allow(k) returns in, true or false, every time
\* stored for k is younger than Window.  A call that returns false writes
\* nothing back, and found Limit stored times of which none had expired.
C26_FreshOnReturn ==
    [][IsAllowStep =>
          LET k == ret'.key
              old == Lookup(requests, k)
              new == Lookup(requests', k)
          IN  /\ \A i \in 1..Len(new) : clock' - new[i] < Window
              /\ ~ret'.ok => /\ requests' = requests
                             /\ Len(old) = Limit
                             /\ Young(old, clock) = old
      ]_vars

\* A denial later than the oldest stored time, and an admission that
\* dropped expired times, have both happened for the key.
C26_Witness ==
    /\ ret.op = "Allow" /\ ~ret.ok
    /\ requests[ret.key][1] < clock
    /\ clock - requests[ret.key][1] < Window
    /\ requests[ret.key][1] >= Window

\* C27: every key of the map has a stored sequence of 1 to Limit times, and
\* a key that was not in the map is in it after a step only if the step is
\* a call of Allow for that key that returned true.
C27_EntersByAdmission ==
    /\ [](\A k \in DOMAIN requests :
             Len(requests[k]) >= 1 /\ Len(requests[k]) <= Limit)
    /\ [][\A k \in (DOMAIN requests') \ (DOMAIN requests) :
             ret'.op = "Allow" /\ ret'.key = k /\ ret'.ok]_vars

\* One key is at the limit and was denied; the other key, once at the limit,
\* was admitted after its stored times expired and holds one time.
C27_Witness ==
    /\ DOMAIN requests = Keys
    /\ Len(requests[KeyA]) = Limit /\ first[KeyA] >= 0 /\ ncalls[KeyA] > Limit
    /\ Len(requests[KeyB]) = 1 /\ requests[KeyB][1] = clock
    /\ first[KeyB] = SpanOver

\* C28: a key with Limit or more stored times is admitted by a call exactly
\* when its oldest stored time is Window old or older, and a call that is
\* denied leaves the oldest stored time as it was, however many calls are
\* denied and whenever; a key that is denied while the clock can still
\* advance by Window is admitted again later.
C28_LockoutNotExtended ==
    /\ [][IsAllowStep /\ Len(Lookup(requests, ret'.key)) >= Limit
          => LET old == Lookup(requests, ret'.key)
             IN  /\ ret'.ok <=> clock >= old[1] + Window
                 /\ ~ret'.ok => Lookup(requests', ret'.key)[1] = old[1]
         ]_vars
    /\ \A k \in SlidingKeys :
          (ret.op = "Allow" /\ ret.key = k /\ ~ret.ok
              /\ clock + Window <= MaxClock)
            ~> (ret.op = "Allow" /\ ret.key = k /\ ret.ok)

\* Two calls were denied, the last one later than the last admission, and
\* the oldest stored time is still the time of the first call.
C28_Witness ==
    /\ ret.op = "Allow" /\ ~ret.ok
    /\ ncalls[ret.key] >= Limit + 2
    /\ Len(Lookup(requests, ret.key)) = Limit
    /\ requests[ret.key][1] = first[ret.key]
    /\ requests[ret.key][1] < requests[ret.key][Limit]
    /\ requests[ret.key][Limit] < clock

\* C29: a request to /collect whose method is OPTIONS, or any method other
\* than POST, is answered without a call of Allow: the step that serves it
\* leaves the map and the count of admissions of every key as they were.
C29_NoAllowOffPost ==
    [][resp'.served /\ ret'.op # "Tick" /\ resp'.req.method # "POST"
          => /\ ret'.op = "Skip"
             /\ requests' = requests
             /\ admitted' = admitted
             /\ resp'.code = (IF resp'.req.method = "OPTIONS" THEN 200 ELSE 405)
      ]_vars

\* A GET of a client whose key is at its limit is answered 405.
C29_Witness ==
    /\ resp.served /\ resp.req.method = "GET" /\ resp.code = 405
    /\ ret.op = "Skip"
    /\ Len(Lookup(requests, getClientIP(resp.req))) = Limit
    /\ requests[getClientIP(resp.req)][Limit] = clock

\* The admissions of all keys in the window ending now.
InWindowTotal == CountIn(admitted[KeyA], clock) + CountIn(admitted[KeyB], clock)

\* C30: the limit is applied per resolved key, not per peer.  Each request
\* of the one peer is counted under the first entry of its forwarded-for
\* header, it is admitted exactly when fewer than Limit admissions of that
\* key lie in the window, and it leaves the admissions of the other key as
\* they were; the admissions of the peer in a window can exceed Limit and
\* are at most Limit per key.
C30_PerKeyNotPerPeer ==
    /\ [][ret'.op = "Allow"
          => /\ ret'.key \in Entries(resp'.req.xff)
             /\ ret'.ok <=> CountIn(admitted[ret'.key], clock) < Limit
             /\ \A b \in Keys \ {ret'.key} : admitted'[b] = admitted[b]
         ]_vars
    /\ [](\A k \in Keys : CountIn(admitted[k], clock) <= Limit)

\* The one peer has 2 * Limit admissions in one window, Limit under each
\* of the two first entries, one of which is not the peer's own address.
C30_Witness ==
    /\ resp.served /\ ret.op = "Allow" /\ ret.ok
    /\ \A r \in PeerRequests : HostOf(r.remote) = {KeyA}
    /\ {getClientIP(r) : r \in PeerRequests} = {KeyA, KeyB}
    /\ InWindowTotal = 2 * Limit

\* The digest of 2^31.
TwoTo31Digest == <<"8", "0", "0", "0", "0", "0", "0", "0">>

\* C31: every digest has at most eight hexadecimal digits and denotes a
\* number from 0 to 2^31; the accumulator -2^31 gets the digest "80000000",
\* and no other digest denotes a number above 2^31 - 1.
C31_DigestRange ==
    digest # NoDigest =>
        /\ Len(digest) <= 8
        /\ \A i \in 1..Len(digest) : HexDigitValue(digest[i]) >= 0
        /\ HexNum(digest).hi >= 0 /\ HexNum(digest).hi <= 2^15
        /\ HexNum(digest).hi = 2^15 => digest = TwoTo31Digest
        /\ hash = MinInt32 <=> digest = TwoTo31Digest

\* The argument whose accumulator ends at -2^31 got the digest "80000000".
C31_Witness ==
    /\ str = MinSignal /\ idx = Len(str)
    /\ hash.hi = 0 - 2^15 /\ hash.lo = 0
    /\ digest = TwoTo31Digest

====
